---------------------------- MODULE Spec2Model ----------------------------
(***************************************************************************)
(* A model of src/src/main.rs: the RESP codec (enum RESP and its parse     *)
(* functions) and the polling event loop of TcpServer (accept, read,       *)
(* dispatch), together with the clients and the sockets it talks to.       *)
(*                                                                         *)
(* Text is a sequence of one-character strings, so a buffer is              *)
(* <<"*", "1", "\r", "\n", ...>>.  All text of the model is ASCII, so the   *)
(* byte length of a string (String::len) is the length of its sequence.    *)
(* One more byte, InvalidByte, stands for a byte that no UTF-8 text holds.  *)
(***************************************************************************)
EXTENDS Naturals, Integers, Sequences, FiniteSets, TLC

---------------------------------------------------------------------------
(* Bounds of the model.                                                    *)

\* The number of clients of the scenario with several clients.
MaxClients == 2
\* The largest number of arguments after the command name in a drawn frame.
MaxArgs == 2

---------------------------------------------------------------------------
(* Program constants.                                                      *)

\* let mut buffer = [0; 1024]: the most bytes one read returns.
ScratchSize == 1024
\* next_connection_id: 1 in TcpServer::new.
FirstConnectionId == 1

---------------------------------------------------------------------------
(* Text helpers.                                                           *)

CR == "\r"
LF == "\n"
CRLF == <<CR, LF>>
SP == " "

\* A byte that is not part of any UTF-8 text (0xFF), written as one element.
InvalidByte == "0xFF"

\* std::str::from_utf8(bytes).is_ok()
IsUtf8(bytes) == \A i \in 1..Len(bytes) : bytes[i] # InvalidByte

Digits == <<"0", "1", "2", "3", "4", "5", "6", "7", "8", "9">>
DigitSet == {Digits[i] : i \in 1..10}
DigitVal(c) == (CHOOSE i \in 1..10 : Digits[i] = c) - 1

Min(a, b) == IF a < b THEN a ELSE b

\* The position of the first occurrence of c in s, 0 when there is none.
IndexOf(s, c) ==
  IF \E i \in 1..Len(s) : s[i] = c
  THEN CHOOSE i \in 1..Len(s) : s[i] = c /\ \A j \in 1..(i - 1) : s[j] # c
  ELSE 0

\* str::starts_with
StartsWith(s, p) == Len(s) >= Len(p) /\ SubSeq(s, 1, Len(p)) = p

\* [&str]::join(sep)
RECURSIVE Join(_, _)
Join(parts, sep) ==
  IF Len(parts) = 0 THEN <<>>
  ELSE IF Len(parts) = 1 THEN parts[1]
  ELSE parts[1] \o sep \o Join(Tail(parts), sep)

\* str::lines(): the text is cut after every "\n"; a piece that ends in "\n"
\* loses it and then one "\r" before it, if there is one; a last piece without
\* "\n" is a line as it stands (a "\r" at its end is kept); an empty rest gives
\* no line.
StripLineEnd(piece) ==
  IF Len(piece) > 0 /\ piece[Len(piece)] = CR
  THEN SubSeq(piece, 1, Len(piece) - 1)
  ELSE piece

RECURSIVE Lines(_)
Lines(s) ==
  IF Len(s) = 0 THEN <<>>
  ELSE LET i == IndexOf(s, LF)
       IN IF i = 0 THEN <<s>>
          ELSE <<StripLineEnd(SubSeq(s, 1, i - 1))>> \o Lines(SubSeq(s, i + 1, Len(s)))

\* str::strip_prefix(c): Some(rest) or None.
NoneStr == [some |-> FALSE, s |-> <<>>]
SomeStr(s) == [some |-> TRUE, s |-> s]
StripPrefix(l, c) ==
  IF Len(l) > 0 /\ l[1] = c THEN SomeStr(Tail(l)) ELSE NoneStr

\* str::parse::<usize>(): an optional "+", then one or more decimal digits and
\* nothing else.  -1 stands for Err.  The headers of the model have at most
\* three digits, so the overflow of usize (an Err as well) stays out of reach.
RECURSIVE DigitsValue(_, _)
DigitsValue(ds, acc) ==
  IF Len(ds) = 0 THEN acc
  ELSE DigitsValue(Tail(ds), acc * 10 + DigitVal(ds[1]))

ParseUsize(l) ==
  LET ds == IF Len(l) > 0 /\ l[1] = "+" THEN Tail(l) ELSE l
  IN IF Len(ds) > 0 /\ \A i \in 1..Len(ds) : ds[i] \in DigitSet
     THEN DigitsValue(ds, 0)
     ELSE -1

\* format!("{}", n) of a usize: its decimal digits, no sign, no leading zero.
RECURSIVE FormatUsize(_)
FormatUsize(n) ==
  IF n < 10 THEN <<Digits[n + 1]>>
  ELSE FormatUsize(n \div 10) \o <<Digits[(n % 10) + 1]>>

---------------------------------------------------------------------------
(* enum RESP and Result<RESP, String>.                                     *)

BulkString(s) == [tag |-> "BulkString", s |-> s, elems |-> <<>>]
Array(elems) == [tag |-> "Array", s |-> <<>>, elems |-> elems]

Ok(v) == [ok |-> TRUE, val |-> v, err |-> ""]
Err(e) == [ok |-> FALSE, val |-> Array(<<>>), err |-> e]

\* HeaderNumber with parse().unwrap_or(0): a field that is no number counts
\* as 0.
HeaderNumber_ZeroOnError(lines, c) ==
  IF Len(lines) = 0 THEN -1
  ELSE LET p == StripPrefix(lines[1], c)
       IN IF p.some THEN (IF ParseUsize(p.s) = -1 THEN 0 ELSE ParseUsize(p.s)) ELSE -1

\* The header line of a frame: lines.next().and_then(strip_prefix(c))
\* .and_then(parse().ok()); -1 stands for None.
HeaderNumber(lines, c) ==
  IF Len(lines) = 0 THEN -1
  ELSE LET p == StripPrefix(lines[1], c)
       IN IF p.some THEN ParseUsize(p.s) ELSE -1

\* RESP::parse_bulk_strings
parse_bulk_strings(input) ==
  LET lines == Lines(input)
      length == HeaderNumber(lines, "$")
  IN IF length = -1 THEN Err("Invalid bulk string length")
     ELSE IF Len(lines) < 2 THEN Err("Missing bulk string value")
     ELSE Ok(BulkString(lines[2]))

\* One round of the loop of parse_array: lines.by_ref().take(2) joined by
\* "\r\n" and parsed again as a bulk string.
TakeElement(lines) == Join(SubSeq(lines, 1, Min(2, Len(lines))), CRLF)

\* ParseElements with a loop over all the lines there are in place of
\* for _ in 0..count.
RECURSIVE ParseElements_AllLines(_, _, _)
ParseElements_AllLines(lines, count, values) ==
  IF Len(lines) = 0 THEN Ok(Array(values))
  ELSE LET r == parse_bulk_strings(TakeElement(lines))
       IN IF ~r.ok THEN Err(r.err)
          ELSE ParseElements_AllLines(SubSeq(lines, Min(2, Len(lines)) + 1, Len(lines)),
                                      count, Append(values, r.val))

RECURSIVE ParseElements(_, _, _)
ParseElements(lines, count, values) ==
  IF count = 0 THEN Ok(Array(values))
  ELSE LET r == parse_bulk_strings(TakeElement(lines))
       IN IF ~r.ok THEN Err(r.err)
          ELSE ParseElements(SubSeq(lines, Min(2, Len(lines)) + 1, Len(lines)),
                             count - 1, Append(values, r.val))

\* RESP::parse_array
parse_array(input) ==
  LET lines == Lines(input)
      count == HeaderNumber(lines, "*")
  IN IF count = -1 THEN Err("Invalid array length")
     ELSE ParseElements(Tail(lines), count, <<>>)

\* RESP::parse_redis_protocol
parse_redis_protocol(input) ==
  IF StartsWith(input, <<"*">>) THEN parse_array(input)
  ELSE IF StartsWith(input, <<"$">>) THEN parse_bulk_strings(input)
  ELSE Err("Invalid Redis protocol")

\* The flat_map of get_response_value: a bulk string gives its text, an array
\* the texts of the bulk strings right below it.
RECURSIVE BulkTexts(_)
BulkTexts(values) ==
  IF Len(values) = 0 THEN <<>>
  ELSE (IF values[1].tag = "BulkString" THEN <<values[1].s>> ELSE <<>>)
       \o BulkTexts(Tail(values))

RECURSIVE FlatTexts(_)
FlatTexts(values) ==
  IF Len(values) = 0 THEN <<>>
  ELSE (IF values[1].tag = "BulkString" THEN <<values[1].s>>
        ELSE BulkTexts(values[1].elems))
       \o FlatTexts(Tail(values))

\* RESP::get_response_value
get_response_value(values) ==
  Join(FlatTexts(IF Len(values) = 0 THEN <<>> ELSE Tail(values)), <<SP>>)

---------------------------------------------------------------------------
(* The state.                                                              *)

VARIABLES
  connections,         \* TcpServer.connections: id -> [buffer]
  next_connection_id,  \* TcpServer.next_connection_id
  pc,                  \* where run is: "accept", "read", "dispatch", "exited"
  scan,                \* the ids the running for loop has not visited yet
  to_remove,           \* handle_connections' to_remove
  result,              \* how run ended: "running", "accept_error", "read_error", "panic"
  backlog,             \* connections waiting in the listener's queue
  inbound,             \* per socket: the bytes sent by the client and not read yet
  eof,                 \* the sockets whose client closed its write side
  broken,              \* the sockets that were reset: read and write fail
  out,                 \* per socket: the replies written, one per write_all
  script,              \* per client: the chunks it still sends
  inflight,            \* per socket: the requests whose last byte is in inbound
  batches,             \* per socket: the requests completed by each read of n > 0 bytes
  closed_seen          \* the ids whose read has returned Ok(0)

vars == <<connections, next_connection_id, pc, scan, to_remove, result, backlog,
          inbound, eof, broken, out, script, inflight, batches, closed_seen>>

serverVars == <<connections, next_connection_id, pc, scan, to_remove, result>>
socketVars == <<inbound, eof, broken, out, inflight, batches, closed_seen>>

Clients == 1..Len(script)
Registered == DOMAIN connections
\* The ids given out so far: every socket the server has accepted.
Accepted == FirstConnectionId..(next_connection_id - 1)

---------------------------------------------------------------------------
(* The clients: what they send.                                            *)

ECHO == <<"E", "C", "H", "O">>
PING == <<"P", "I", "N", "G">>
PONG == <<"+", "P", "O", "N", "G", CR, LF>>

\* A request on the wire: *<n>\r\n, then $<len>\r\n<bytes>\r\n per element.
EncodeBulk(s) == <<"$">> \o FormatUsize(Len(s)) \o CRLF \o s \o CRLF

RECURSIVE EncodeBulks(_)
EncodeBulks(req) ==
  IF Len(req) = 0 THEN <<>> ELSE EncodeBulk(req[1]) \o EncodeBulks(Tail(req))

Encode(req) == <<"*">> \o FormatUsize(Len(req)) \o CRLF \o EncodeBulks(req)

\* One write of a client: its bytes, and the requests it completes.
Chunk(bytes, reqs) == [bytes |-> bytes, reqs |-> reqs]
Whole(req) == Chunk(Encode(req), <<req>>)

---------------------------------------------------------------------------
(* The server: TcpServer::run and the three phases of a tick.              *)

\* s.starts_with("ECHO")
IsEcho(s) == StartsWith(s, ECHO)

\* format!("${}\r\n{}\r\n", response.len(), response)
EchoReply(values) ==
  LET response == get_response_value(values)
  IN <<"$">> \o FormatUsize(Len(response)) \o CRLF \o response \o CRLF

\* The for loop over the values of a parsed array: the first bulk string decides
\* the reply and ends the loop; other values are passed over.  <<>> when the
\* loop ends without a write.
RECURSIVE ReplyFor(_, _)
ReplyFor(values, i) ==
  IF i > Len(values) THEN <<>>
  ELSE IF values[i].tag = "BulkString"
       THEN (IF IsEcho(values[i].s) THEN <<EchoReply(values)>> ELSE <<PONG>>)
       ELSE ReplyFor(values, i + 1)

\* DispatchReply with a parse failure and the empty buffer taken for the default
\* command: +PONG is written where the code writes nothing.
DispatchReply_PongOnFailure(buffer) ==
  LET r == parse_redis_protocol(buffer)
  IN IF r.ok /\ r.val.tag = "Array" /\ Len(ReplyFor(r.val.elems, 1)) > 0
     THEN ReplyFor(r.val.elems, 1)
     ELSE <<PONG>>

\* What parse_resp_connection_buffer writes for one buffer: <<reply>> or <<>>.
\* The buffer is cleared exactly when a write is attempted.
DispatchReply(buffer) ==
  IF Len(buffer) = 0 THEN <<>>
  ELSE LET r == parse_redis_protocol(buffer)
       IN IF r.ok /\ r.val.tag = "Array" THEN ReplyFor(r.val.elems, 1) ELSE <<>>

\* AcceptOk with the id taken from the size of the map, connections.len() + 1,
\* so that an id comes back after a removal.
AcceptOk_ReusesId ==
  /\ pc = "accept"
  /\ backlog > 0
  /\ LET id == Cardinality(Registered) + 1
     IN connections' = [i \in Registered \cup {id} |->
                          IF i = id THEN [buffer |-> <<>>] ELSE connections[i]]
  /\ next_connection_id' = next_connection_id + 1
  /\ backlog' = backlog - 1
  /\ UNCHANGED <<pc, scan, to_remove, result, script>>
  /\ UNCHANGED socketVars

\* listener.accept() returns a stream: the entry is inserted under the next id.
AcceptOk ==
  /\ pc = "accept"
  /\ backlog > 0
  /\ connections' = [id \in Registered \cup {next_connection_id} |->
                       IF id = next_connection_id THEN [buffer |-> <<>>]
                       ELSE connections[id]]
  /\ next_connection_id' = next_connection_id + 1
  /\ backlog' = backlog - 1
  /\ UNCHANGED <<pc, scan, to_remove, result, script>>
  /\ UNCHANGED socketVars

\* AcceptWouldBlock without the loop around accept(): the read loop starts
\* though connections are still pending.
AcceptWouldBlock_LeavesPending ==
  /\ pc = "accept"
  /\ pc' = "read"
  /\ scan' = Registered
  /\ to_remove' = <<>>
  /\ UNCHANGED <<connections, next_connection_id, result, backlog, script>>
  /\ UNCHANGED socketVars

\* listener.accept() would block: the accept loop ends, the read loop starts.
AcceptWouldBlock ==
  /\ pc = "accept"
  /\ backlog = 0
  /\ pc' = "read"
  /\ scan' = Registered
  /\ to_remove' = <<>>
  /\ UNCHANGED <<connections, next_connection_id, result, backlog, script>>
  /\ UNCHANGED socketVars

\* listener.accept() fails otherwise: the error leaves run through the two ?.
AcceptError ==
  /\ pc = "accept"
  /\ pc' = "exited"
  /\ result' = "accept_error"
  /\ UNCHANGED <<connections, next_connection_id, scan, to_remove, backlog, script>>
  /\ UNCHANGED socketVars

\* read returns Err other than WouldBlock: return Err(e), out of run.
ReadError(id) ==
  /\ id \in broken
  /\ pc' = "exited"
  /\ result' = "read_error"
  /\ scan' = scan \ {id}
  /\ UNCHANGED <<connections, to_remove, inbound, inflight, batches, closed_seen>>

\* ReadData with a scratch buffer that takes all the socket holds.
ReadData_Unbounded(id) ==
  /\ id \notin broken
  /\ Len(inbound[id]) > 0
  /\ connections' = [connections EXCEPT ![id].buffer = @ \o inbound[id]]
  /\ inbound' = [inbound EXCEPT ![id] = <<>>]
  /\ batches' = [batches EXCEPT ![id] = Append(@, inflight[id])]
  /\ inflight' = [inflight EXCEPT ![id] = <<>>]
  /\ scan' = scan \ {id}
  /\ UNCHANGED <<pc, to_remove, result, closed_seen>>

\* read returns Ok(n), n > 0: the n bytes are appended to the buffer.
ReadData(id) ==
  /\ id \notin broken
  /\ Len(inbound[id]) > 0
  /\ LET n == Min(Len(inbound[id]), ScratchSize)
     IN /\ connections' = [connections EXCEPT
                             ![id].buffer = @ \o SubSeq(inbound[id], 1, n)]
        /\ inbound' = [inbound EXCEPT ![id] = SubSeq(@, n + 1, Len(@))]
        /\ IF n = Len(inbound[id])
           THEN /\ batches' = [batches EXCEPT ![id] = Append(@, inflight[id])]
                /\ inflight' = [inflight EXCEPT ![id] = <<>>]
           ELSE /\ batches' = [batches EXCEPT ![id] = Append(@, <<>>)]
                /\ UNCHANGED inflight
  /\ scan' = scan \ {id}
  /\ UNCHANGED <<pc, to_remove, result, closed_seen>>

\* ReadClosed with connections.remove(&id) inside the read loop.
ReadClosed_RemovesNow(id) ==
  /\ id \notin broken
  /\ Len(inbound[id]) = 0
  /\ id \in eof
  /\ connections' = [i \in Registered \ {id} |-> connections[i]]
  /\ closed_seen' = closed_seen \cup {id}
  /\ scan' = scan \ {id}
  /\ UNCHANGED <<to_remove, pc, result, inbound, inflight, batches>>

\* read returns Ok(0): the id is pushed to to_remove.
ReadClosed(id) ==
  /\ id \notin broken
  /\ Len(inbound[id]) = 0
  /\ id \in eof
  /\ to_remove' = Append(to_remove, id)
  /\ closed_seen' = closed_seen \cup {id}
  /\ scan' = scan \ {id}
  /\ UNCHANGED <<connections, pc, result, inbound, inflight, batches>>

\* read would block: nothing happens.
ReadWouldBlock(id) ==
  /\ id \notin broken
  /\ Len(inbound[id]) = 0
  /\ id \notin eof
  /\ scan' = scan \ {id}
  /\ UNCHANGED <<connections, pc, to_remove, result, inbound, inflight, batches,
                  closed_seen>>

\* One round of the for loop of handle_connections, in the map's own order.
ReadConn(id) ==
  /\ pc = "read"
  /\ id \in scan
  /\ \/ ReadError(id)
     \/ ReadData(id)
     \/ ReadClosed(id)
     \/ ReadWouldBlock(id)
  /\ UNCHANGED <<next_connection_id, backlog, eof, broken, out, script>>

\* The ids of a Vec<usize>.
Range(seq) == {seq[i] : i \in 1..Len(seq)}

\* RemoveFlagged without the loop over to_remove: nothing is removed.
RemoveFlagged_KeepsAll ==
  /\ pc = "read"
  /\ scan = {}
  /\ pc' = "dispatch"
  /\ scan' = Registered
  /\ UNCHANGED <<connections, next_connection_id, to_remove, result, backlog, script>>
  /\ UNCHANGED socketVars

\* for id in to_remove { connections.remove(&id) }, then the dispatch loop starts.
RemoveFlagged ==
  /\ pc = "read"
  /\ scan = {}
  /\ connections' = [id \in Registered \ Range(to_remove) |-> connections[id]]
  /\ pc' = "dispatch"
  /\ scan' = Registered \ Range(to_remove)
  /\ UNCHANGED <<next_connection_id, to_remove, result, backlog, script>>
  /\ UNCHANGED socketVars

\* DispatchConn without connection.buffer.clear().
DispatchConn_KeepsBuffer(id) ==
  /\ pc = "dispatch"
  /\ id \in scan
  /\ LET reply == DispatchReply(connections[id].buffer)
     IN out' = IF Len(reply) = 0 \/ id \in broken THEN out
               ELSE [out EXCEPT ![id] = Append(@, reply[1])]
  /\ scan' = scan \ {id}
  /\ UNCHANGED <<connections, next_connection_id, pc, to_remove, result, backlog, script>>
  /\ UNCHANGED <<inbound, eof, broken, inflight, batches, closed_seen>>

\* DispatchConn with a read cursor in place of connection.buffer.clear(): only
\* the bytes of the frame that was answered are taken off the buffer.
DispatchConn_KeepsRest(id) ==
  /\ pc = "dispatch"
  /\ id \in scan
  /\ scan' = scan \ {id}
  /\ LET buffer == connections[id].buffer
         reply == DispatchReply(buffer)
         frame == Encode(BulkTexts(parse_redis_protocol(buffer).val.elems))
     IN IF Len(reply) = 0
        THEN UNCHANGED <<connections, out>>
        ELSE /\ out' = IF id \in broken THEN out
                       ELSE [out EXCEPT ![id] = Append(@, reply[1])]
             /\ connections' = [connections EXCEPT
                                  ![id].buffer = SubSeq(buffer, Len(frame) + 1, Len(buffer))]
  /\ UNCHANGED <<next_connection_id, pc, to_remove, result, backlog, script>>
  /\ UNCHANGED <<inbound, eof, broken, inflight, batches, closed_seen>>

\* DispatchConn with write_all(..)? in place of the if let Err: a failed write
\* ends run.
DispatchConn_WriteErrorEndsRun(id) ==
  /\ pc = "dispatch"
  /\ id \in scan
  /\ scan' = scan \ {id}
  /\ LET reply == DispatchReply(connections[id].buffer)
     IN IF Len(reply) = 0
        THEN UNCHANGED <<connections, out, pc, result>>
        ELSE IF id \in broken
        THEN /\ pc' = "exited"
             /\ result' = "write_error"
             /\ UNCHANGED <<connections, out>>
        ELSE /\ out' = [out EXCEPT ![id] = Append(@, reply[1])]
             /\ connections' = [connections EXCEPT ![id].buffer = <<>>]
             /\ UNCHANGED <<pc, result>>
  /\ UNCHANGED <<next_connection_id, to_remove, backlog, script>>
  /\ UNCHANGED <<inbound, eof, broken, inflight, batches, closed_seen>>

\* DispatchConn with connection.buffer.clear() behind the match: the buffer is
\* cleared whatever the parse gave.
DispatchConn_ClearsAlways(id) ==
  /\ pc = "dispatch"
  /\ id \in scan
  /\ scan' = scan \ {id}
  /\ LET reply == DispatchReply(connections[id].buffer)
     IN /\ out' = IF Len(reply) = 0 \/ id \in broken THEN out
                  ELSE [out EXCEPT ![id] = Append(@, reply[1])]
        /\ connections' = [connections EXCEPT ![id].buffer = <<>>]
  /\ UNCHANGED <<next_connection_id, pc, to_remove, result, backlog, script>>
  /\ UNCHANGED <<inbound, eof, broken, inflight, batches, closed_seen>>

\* One round of the for loop of parse_resp_connection_buffer.  A non-empty
\* buffer that is not UTF-8 makes from_utf8(..).unwrap() panic: the process
\* ends.  Otherwise write_all fails on a reset socket (the error is printed and
\* dropped), and the buffer is cleared after the write either way.
DispatchConn(id) ==
  /\ pc = "dispatch"
  /\ id \in scan
  /\ scan' = scan \ {id}
  /\ IF ~IsUtf8(connections[id].buffer)
     THEN /\ pc' = "exited"
          /\ result' = "panic"
          /\ UNCHANGED <<connections, out>>
     ELSE /\ LET reply == DispatchReply(connections[id].buffer)
             IN IF Len(reply) = 0
                THEN UNCHANGED <<connections, out>>
                ELSE /\ out' = IF id \in broken THEN out
                               ELSE [out EXCEPT ![id] = Append(@, reply[1])]
                     /\ connections' = [connections EXCEPT ![id].buffer = <<>>]
          /\ UNCHANGED <<pc, result>>
  /\ UNCHANGED <<next_connection_id, to_remove, backlog, script>>
  /\ UNCHANGED <<inbound, eof, broken, inflight, batches, closed_seen>>

\* The dispatch loop is over: sleep(10 ms), and the next tick starts.
EndTick ==
  /\ pc = "dispatch"
  /\ scan = {}
  /\ pc' = "accept"
  /\ UNCHANGED <<connections, next_connection_id, scan, to_remove, result, backlog, script>>
  /\ UNCHANGED socketVars

---------------------------------------------------------------------------
(* The clients.  Once run has returned the process ends and its sockets    *)
(* with it, so nothing moves after "exited".                               *)

Connects == backlog + (next_connection_id - FirstConnectionId)

ClientConnect ==
  /\ pc # "exited"
  /\ Connects < Len(script)
  /\ backlog' = backlog + 1
  /\ UNCHANGED serverVars
  /\ UNCHANGED socketVars
  /\ UNCHANGED script

ClientSend(id) ==
  /\ pc # "exited"
  /\ id \in Registered
  /\ id \notin eof \cup broken
  /\ Len(script[id]) > 0
  /\ inbound' = [inbound EXCEPT ![id] = @ \o script[id][1].bytes]
  /\ inflight' = [inflight EXCEPT ![id] = @ \o script[id][1].reqs]
  /\ script' = [script EXCEPT ![id] = Tail(@)]
  /\ UNCHANGED serverVars
  /\ UNCHANGED <<backlog, eof, broken, out, batches, closed_seen>>

\* The client closes its write side: reads return 0 once inbound is drained.
ClientClose(id) ==
  /\ pc # "exited"
  /\ id \in Registered
  /\ id \notin eof \cup broken
  /\ eof' = eof \cup {id}
  /\ UNCHANGED serverVars
  /\ UNCHANGED <<backlog, inbound, broken, out, script, inflight, batches, closed_seen>>

\* The connection is reset: what was in flight is lost, read and write fail.
ClientReset(id) ==
  /\ pc # "exited"
  /\ id \in Registered
  /\ id \notin broken
  /\ broken' = broken \cup {id}
  /\ inbound' = [inbound EXCEPT ![id] = <<>>]
  /\ inflight' = [inflight EXCEPT ![id] = <<>>]
  /\ UNCHANGED serverVars
  /\ UNCHANGED <<backlog, eof, out, script, batches, closed_seen>>

---------------------------------------------------------------------------
(* The specifications.                                                     *)

Next ==
  \/ AcceptOk
  \/ AcceptWouldBlock
  \/ AcceptError
  \/ \E id \in Registered : ReadConn(id)
  \/ RemoveFlagged
  \/ \E id \in Registered : DispatchConn(id)
  \/ EndTick
  \/ ClientConnect
  \/ \E id \in Clients : ClientSend(id)
  \/ \E id \in Clients : ClientClose(id)
  \/ \E id \in Clients : ClientReset(id)

\* TcpServer::new, and clients that have not connected yet.
InitWith(scripts) ==
  /\ connections = [id \in {} |-> [buffer |-> <<>>]]
  /\ next_connection_id = FirstConnectionId
  /\ pc = "accept"
  /\ scan = {}
  /\ to_remove = <<>>
  /\ result = "running"
  /\ backlog = 0
  /\ script = scripts
  /\ inbound = [id \in 1..Len(scripts) |-> <<>>]
  /\ eof = {}
  /\ broken = {}
  /\ out = [id \in 1..Len(scripts) |-> <<>>]
  /\ inflight = [id \in 1..Len(scripts) |-> <<>>]
  /\ batches = [id \in 1..Len(scripts) |-> <<>>]
  /\ closed_seen = {}

\* Several clients sending whole requests that carry their own letter: the
\* first two clients two requests each, the others one.
Letters == <<"a", "b", "c", "d">>
Letter(id) == <<Letters[((id - 1) % 4) + 1]>>

ClientScript(id) ==
  IF id = 1 THEN <<Whole(<<ECHO, Letter(id)>>), Whole(<<PING>>)>>
  ELSE IF id = 2 THEN <<Whole(<<PING>>), Whole(<<ECHO, Letter(id), Letter(id)>>)>>
  ELSE <<Whole(<<ECHO, Letter(id)>>)>>

Init == InitWith([id \in 1..MaxClients |-> ClientScript(id)])

Spec == Init /\ [][Next]_vars

\* One client per run, sending one frame: an array of 0 to MaxArgs + 1 bulk
\* strings, each one of Words.
ECHOX == <<"E", "C", "H", "O", "X">>
Words == {ECHO, PING, ECHOX, <<"e", "c", "h", "o">>, <<"h", "i">>, <<>>}

RECURSIVE SeqsUpTo(_, _)
SeqsUpTo(S, n) ==
  IF n = 0 THEN {<<>>}
  ELSE LET shorter == SeqsUpTo(S, n - 1)
       IN shorter \cup {Append(q, w) : q \in {r \in shorter : Len(r) = n - 1}, w \in S}

Frames == SeqsUpTo(Words, MaxArgs + 1)

InitFrame == \E req \in Frames : InitWith(<<(<<Whole(req)>>)>>)

SpecFrame == InitFrame /\ [][Next]_vars

\* One client per run, sending one request in two parts, cut at any byte.
SplitRequests == {<<PING>>, <<ECHO, <<"h", "i">>>>}

SplitScript(req, k) ==
  LET bytes == Encode(req)
  IN <<Chunk(SubSeq(bytes, 1, k), <<>>),
       Chunk(SubSeq(bytes, k + 1, Len(bytes)), <<req>>)>>

InitSplit ==
  \E req \in SplitRequests :
    \E k \in 1..(Len(Encode(req)) - 1) : InitWith(<<SplitScript(req, k)>>)

SpecSplit == InitSplit /\ [][Next]_vars

\* Several clients, each sending one whole request.
SingleScript(id) ==
  IF id % 2 = 1 THEN <<Whole(<<PING>>)>> ELSE <<Whole(<<ECHO, Letter(id)>>)>>

InitSingle == InitWith([id \in 1..MaxClients |-> SingleScript(id)])

SpecSingle == InitSingle /\ [][Next]_vars

\* One client per run, sending one frame put together from header fields, good
\* and bad: an optional array header "*<count>", then up to MaxArgs elements
\* "<mark><length>\r\n<letter>\r\n", the i-th carrying the i-th letter.
CountFields == {<<"0">>, <<"1">>, <<"2">>, <<"+", "1">>, <<"-", "1">>, <<"x">>, <<>>}
LengthFields == {<<"1">>, <<"2">>, <<"x">>}
Marks == {"$", ":"}

Elements == [mark : Marks, length : LengthFields]
Heads == {<<>>} \cup {<<"*">> \o f \o CRLF : f \in CountFields}
Shapes == {d \in [head : Heads, elems : SeqsUpTo(Elements, MaxArgs)] :
             Len(d.head) + Len(d.elems) > 0}

RECURSIVE ElementBytes(_, _)
ElementBytes(elems, i) ==
  IF i > Len(elems) THEN <<>>
  ELSE <<elems[i].mark>> \o elems[i].length \o CRLF \o Letter(i) \o CRLF
       \o ElementBytes(elems, i + 1)

ShapeBytes(d) == d.head \o ElementBytes(d.elems, 1)

InitShape == \E d \in Shapes : InitWith(<<(<<Chunk(ShapeBytes(d), <<d>>)>>)>>)

SpecShape == InitShape /\ [][Next]_vars

\* One client per run, sending first something that is no request, then a
\* well-formed request; or sending a request in two parts, cut inside the
\* header of the array or of its first element.
NoRequests ==
  { <<"h", "i">> \o CRLF,
    <<"+", "O", "K">> \o CRLF,
    <<"N", "G">> \o CRLF,
    <<"$", "2">> \o CRLF \o <<"h", "i">> \o CRLF,
    <<"*", "x">> \o CRLF,
    <<"*", "1">> \o CRLF \o <<":", "5">> \o CRLF,
    <<"*", "0">> \o CRLF,
    <<InvalidByte>> }

Raw(bytes) == Chunk(bytes, <<bytes>>)

HeaderCut(req, k) ==
  LET bytes == Encode(req)
  IN <<Raw(SubSeq(bytes, 1, k)), Chunk(SubSeq(bytes, k + 1, Len(bytes)), <<req>>)>>

InitStuck ==
  \E req \in {<<PING>>, <<ECHO, <<"h", "i">>>>} :
    \/ \E junk \in NoRequests : InitWith(<<(<<Raw(junk), Whole(req)>>)>>)
    \/ \E k \in {Len(<<"*">>), Len(<<"*", "1">> \o CRLF \o <<"$">>)} :
         InitWith(<<HeaderCut(req, k)>>)

SpecStuck == InitStuck /\ [][Next]_vars

\* One client per run, sending one request that is longer than one read
\* returns, then a short one.
BigArg == [i \in 1..(ScratchSize + 8) |-> "x"]

InitBig ==
  \E req \in {<<ECHO, BigArg>>, <<PING, BigArg>>} :
    InitWith(<<(<<Whole(req), Whole(<<PING>>)>>)>>)

SpecBig == InitBig /\ [][Next]_vars

---------------------------------------------------------------------------
(* The replies the wire protocol asks for, written without the codec.      *)

\* The decimal digits of n < 100.
Dec(n) ==
  IF n < 10 THEN <<Digits[n + 1]>> ELSE <<Digits[(n \div 10) + 1], Digits[(n % 10) + 1]>>

RECURSIVE SpaceJoined(_)
SpaceJoined(args) ==
  IF Len(args) = 0 THEN <<>>
  ELSE IF Len(args) = 1 THEN args[1]
  ELSE args[1] \o <<" ">> \o SpaceJoined(Tail(args))

ExpectedBulk(s) == <<"$">> \o Dec(Len(s)) \o <<"\r", "\n">> \o s \o <<"\r", "\n">>

ExpectedReply(req) ==
  IF req[1] = ECHO THEN ExpectedBulk(SpaceJoined(Tail(req))) ELSE PONG

RECURSIVE Flatten(_)
Flatten(seqs) == IF Len(seqs) = 0 THEN <<>> ELSE seqs[1] \o Flatten(Tail(seqs))

\* The requests the server has read to their last byte from socket id, in order.
Received(id) == Flatten(batches[id])

\* The server has read exactly one request from socket id, in one piece, and
\* the dispatch phase of that tick is over.
ReadOneRequest(id) ==
  /\ pc = "accept"
  /\ id \notin broken
  /\ Len(batches[id]) = 1
  /\ Len(batches[id][1]) = 1

TheRequest(id) == batches[id][1][1]

---------------------------------------------------------------------------
(* The claims.                                                             *)

\* C1 (as stated): a buffer holding exactly the array ECHO a1 .. an, n >= 0,
\* is answered by the one reply $<len>\r\n<a1 SP .. SP an>\r\n, len the length
\* of the joined arguments.  It fails for an empty argument.
C1_EchoRoundTrip ==
  \A id \in Clients :
    (ReadOneRequest(id) /\ Len(TheRequest(id)) >= 1 /\ TheRequest(id)[1] = ECHO)
      => out[id] = <<ExpectedBulk(SpaceJoined(Tail(TheRequest(id))))>>

\* C2 (as stated, for arrays of non-empty bulk strings): a request whose first
\* bulk string is not exactly ECHO is answered by +PONG\r\n and nothing else.
\* It fails for a first bulk string that only starts with ECHO.
C2_DefaultReply ==
  \A id \in Clients :
    (/\ ReadOneRequest(id)
     /\ Len(TheRequest(id)) >= 1
     /\ \A i \in 1..Len(TheRequest(id)) : Len(TheRequest(id)[i]) > 0
     /\ TheRequest(id)[1] # ECHO)
      => out[id] = <<PONG>>

\* C3 (as stated): of a request sent in two parts, the first part alone gets no
\* reply, and once the second part is read and dispatched exactly the reply to
\* the whole request has been written.
C3_SplitRequestAnsweredOnce ==
  \A id \in Clients :
    /\ Len(script[id]) = 1 => out[id] = <<>>
    /\ ReadOneRequest(id) => out[id] = <<ExpectedReply(TheRequest(id))>>

\* C4 (as stated): a failing read does not end the loop; run returns only
\* through an accept error.
C4_ReadErrorIsolated == pc = "exited" => result = "accept_error"

C6_AnsweredInSameTick ==
  \A id \in Clients :
    (pc \in {"accept", "exited"} /\ id \notin broken)
      => Len(out[id]) = Len(Received(id))

\* After the read phase no connection whose read has returned Ok(0) is registered.
C7_ClosedIsRemoved ==
  pc \in {"dispatch", "accept"} => closed_seen \cap Registered = {}

\* The step that ends the read phase removes those connections and nothing else.
C7_RemovalTouchesNothingElse ==
  (pc = "read" /\ pc' = "dispatch")
    => /\ Registered' = Registered \ closed_seen'
       /\ \A id \in Registered' : connections'[id] = connections[id]
       /\ out' = out
       /\ result' = "running"

\* C7: once the read phase of a tick is over, no connection whose read has
\* returned zero bytes is in the registry; the removal leaves run running and
\* changes no other entry of the registry and no reply.
C7_OrderlyClose == []C7_ClosedIsRemoved /\ [][C7_RemovalTouchesNothingElse]_vars

\* A closed connection was removed while another one holds unanswered bytes.
C7_Witness ==
  /\ pc = "dispatch"
  /\ closed_seen # {}
  /\ \E id \in Registered : connections[id].buffer # <<>>

\* Every key of the registry is an id given out before, below next_connection_id.
C8_KeysBelowNext == \A id \in Registered : id \in Accepted

\* A step never lowers next_connection_id, and a key it adds was not given out before.
C8_FreshId ==
  /\ next_connection_id' >= next_connection_id
  /\ \A id \in Registered' \ Registered : id \notin Accepted /\ id \in Accepted'
  /\ backlog' < backlog => Cardinality(Registered' \ Registered) = 1

\* C8: every key of the registry is an id given out before, below
\* next_connection_id; next_connection_id never decreases; an accept adds one
\* key, which is none of the ids given out before, removed ones included.
C8_IdsNeverReused == []C8_KeysBelowNext /\ [][C8_FreshId]_vars

\* Connection 1 was closed and removed; connection 2 is registered under id 2.
C8_Witness ==
  /\ 1 \in closed_seen
  /\ Registered = {2}
  /\ next_connection_id = 3

\* What one step does to the connections whose buffer is empty.
C9_EmptyBufferStep ==
  \A id \in Registered :
    connections[id].buffer = <<>>
      => /\ out'[id] = out[id]
         /\ pc = "dispatch" => (id \in Registered' /\ connections'[id].buffer = <<>>)
         /\ (id \in Registered' /\ connections'[id].buffer # <<>>)
              => (pc = "read" /\ Len(inbound[id]) > 0)

\* C9: a connection with an empty buffer gets no write, and through the
\* dispatch phase it stays in the registry with its buffer empty; only a read of
\* bytes makes the buffer non-empty.
C9_EmptyBufferSkipped == [][C9_EmptyBufferStep]_vars

\* A connection that never received a byte was passed over by the dispatch loop
\* while a connection accepted after it has been answered twice.
C9_Witness ==
  /\ pc = "dispatch"
  /\ \E id \in Registered :
       /\ id \notin scan
       /\ connections[id].buffer = <<>>
       /\ batches[id] = <<>>
       /\ \E other \in Registered : other > id /\ Len(out[other]) = 2

\* What the dispatch of one connection does when its buffer parses as an array.
C10_DispatchStep ==
  \A id \in Registered :
    (/\ pc = "dispatch"
     /\ id \in scan
     /\ id \notin scan'
     /\ id \notin broken
     /\ parse_redis_protocol(connections[id].buffer).ok
     /\ parse_redis_protocol(connections[id].buffer).val.tag = "Array")
      => /\ Len(out'[id]) = Len(out[id]) + 1
         /\ connections'[id].buffer = <<>>

\* C10 (as stated): the dispatch of a buffer that parses as an array, of any
\* count, writes one reply and leaves the buffer empty.  It fails for count 0.
C10_ParsedArrayAnswered == [][C10_DispatchStep]_vars


\* The last read of socket id brought a whole request and more requests behind
\* it, and the buffer still holds them.
Pipelined(id) ==
  /\ id \in Registered
  /\ Len(batches[id]) > 0
  /\ Len(batches[id][Len(batches[id])]) >= 2
  /\ connections[id].buffer # <<>>

\* What one step does to the replies: a reply is written to a connection only
\* by its own round of the dispatch loop, one reply at most, and a connection
\* has one round per dispatch phase; a round on a buffer with several requests
\* answers the first and clears all of the buffer.
C11_OneFramePerRound ==
  /\ (pc = "dispatch" /\ pc' = "dispatch") => scan' \subseteq scan
  /\ \A id \in Clients :
       /\ out'[id] # out[id]
            => /\ pc = "dispatch" /\ id \in scan /\ id \notin scan'
               /\ Len(out'[id]) = Len(out[id]) + 1
               /\ SubSeq(out'[id], 1, Len(out[id])) = out[id]
       /\ (pc = "dispatch" /\ id \in scan /\ id \notin scan' /\ Pipelined(id))
            => LET reqs == batches[id][Len(batches[id])]
               IN /\ connections[id].buffer = Flatten([k \in 1..Len(reqs) |-> Encode(reqs[k])])
                  /\ connections'[id].buffer = <<>>
                  /\ id \notin broken => out'[id] = Append(out[id], ExpectedReply(reqs[1]))

\* C11: in one dispatch phase at most one reply is written to a connection; of
\* a buffer that holds a whole request and more bytes behind it only the first
\* request is answered and the clear drops the rest, so that a socket never
\* has more replies than the server made reads of it.
C11_OneFramePerTick ==
  /\ [](\A id \in Clients : Len(out[id]) <= Len(batches[id]))
  /\ [][C11_OneFramePerRound]_vars

\* Two requests were read in one piece, one reply was written, the buffer is
\* empty again and the client has nothing more to send.
C11_Witness ==
  \E id \in Registered :
    /\ pc = "accept"
    /\ batches[id] # <<>>
    /\ Len(batches[id][1]) = 2
    /\ Len(out[id]) = 1
    /\ connections[id].buffer = <<>>
    /\ script[id] = <<>> /\ inbound[id] = <<>>

---------------------------------------------------------------------------
(* The drawn frames, read without the codec.                               *)

\* The buffer of connection id holds the one drawn frame its client sent.
HoldsShape(id) ==
  /\ id \in Registered
  /\ Len(batches[id]) = 1 /\ Len(batches[id][1]) = 1
  /\ connections[id].buffer # <<>>

TheShape(id) == batches[id][1][1]

\* A number field as the wire protocol writes it: one or more decimal digits,
\* with or without a plus sign before them.
Unsigned(f) == IF Len(f) > 0 /\ f[1] = "+" THEN Tail(f) ELSE f
IsNumber(f) == Len(Unsigned(f)) > 0 /\ \A i \in 1..Len(Unsigned(f)) : Unsigned(f)[i] \in DigitSet

RECURSIVE DigitsNumber(_)
DigitsNumber(ds) ==
  IF Len(ds) = 0 THEN 0
  ELSE 10 * DigitsNumber(SubSeq(ds, 1, Len(ds) - 1)) + DigitVal(ds[Len(ds)])

NumberOf(f) == DigitsNumber(Unsigned(f))

\* The drawn frame is an array with a count that is a number.
IsCountedArray(d) == Len(d.head) > 0 /\ IsNumber(SubSeq(d.head, 2, Len(d.head) - 2))
DeclaredCount(d) == NumberOf(SubSeq(d.head, 2, Len(d.head) - 2))

\* Element i of the drawn frame is a bulk string with a length that is a number.
IsBulkElement(d, i) == d.elems[i].mark = "$" /\ IsNumber(d.elems[i].length)

\* C12 (as stated): the parse of an array fails when its count is larger than
\* the number of elements in the buffer, and when the declared length of one
\* of its bulk strings is not the length of the payload line; the text of a
\* parsed bulk string has its declared length.  The code never compares the
\* two lengths.
C12_TruncatedFrameFails ==
  \A id \in Clients :
    (HoldsShape(id) /\ IsCountedArray(TheShape(id)))
      => LET d == TheShape(id)
             n == DeclaredCount(d)
             r == parse_redis_protocol(connections[id].buffer)
         IN /\ n > Len(d.elems) => ~r.ok
            /\ (\E i \in 1..Min(n, Len(d.elems)) :
                  IsBulkElement(d, i) /\ NumberOf(d.elems[i].length) # Len(Letter(i)))
                 => ~r.ok
            /\ (r.ok /\ r.val.tag = "Array")
                 => \A i \in 1..Len(r.val.elems) :
                      Len(r.val.elems[i].s) = NumberOf(d.elems[i].length)


\* The dispatch phase cannot read a request out of this buffer: it is no text,
\* or the parse of it fails, or it yields a value that is no array.
FailsToParse(buffer) ==
  /\ buffer # <<>>
  /\ \/ ~IsUtf8(buffer)
     \/ LET r == parse_redis_protocol(buffer) IN ~(r.ok /\ r.val.tag = "Array")

\* What the round of the dispatch loop does on a buffer that fails to parse.
C13_FailedRound ==
  \A id \in Registered :
    (pc = "dispatch" /\ id \in scan /\ id \notin scan' /\ FailsToParse(connections[id].buffer))
      => /\ out' = out
         /\ connections' = connections
         /\ pc' = "dispatch" /\ result' = "running"
         /\ scan' = scan \ {id}

\* C13 (as stated): a round of the dispatch loop on a non-empty buffer that
\* fails to parse writes nothing, leaves every buffer and the registry as they
\* are, does not end the loop, and leaves the other connections of the phase
\* to be dispatched.  It fails for a buffer that is not UTF-8: the process
\* panics.
C13_ParseFailureHarmless == [][C13_FailedRound]_vars


\* The ids flagged in the read phase that is running.
Flagged == {to_remove[i] : i \in 1..Len(to_remove)}

\* What one step does to the registry and to the flagged connections.
C14_RemovalStep ==
  /\ (pc = "read" /\ pc' # "dispatch")
       => /\ Registered' = Registered
          /\ \A id \in Flagged' \ Flagged : id \in scan /\ id \notin scan'
          /\ Flagged \subseteq Flagged'
  /\ (pc = "read" /\ pc' = "dispatch")
       => /\ scan = {}
          /\ Registered' = Registered \ Flagged
          /\ \A id \in Registered' : connections'[id] = connections[id]
          /\ scan' \cap Flagged = {}
  /\ pc # "read" => (Registered \subseteq Registered' /\ (pc' = "read" => Flagged' = {}))
  /\ \A id \in closed_seen :
       /\ out'[id] = out[id]
       /\ pc' = "dispatch" => id \notin scan'
       /\ pc # "read" => id \notin Registered'

\* C14: the registry keeps its keys while the read scan runs; the flagged
\* connections are deleted only when the scan has visited every connection,
\* and then every flagged connection is gone and every other one is still
\* there, unchanged; a connection that was flagged is never dispatched or
\* written to again.
C14_DeferredRemoval == [][C14_RemovalStep]_vars

\* A connection is flagged and still registered while another connection,
\* with bytes to read, has not been visited yet.
C14_Witness ==
  /\ pc = "read"
  /\ Flagged # {} /\ Flagged \subseteq Registered
  /\ \E id \in scan : Len(inbound[id]) > 0


\* What one step of the read phase does.  The scan starts with every
\* registered connection and the phase ends when it is empty; only the
\* connection whose round it is gets bytes, the first n its socket holds, and
\* its buffer keeps what it had in front of them.
C15_ReadStep ==
  /\ (pc = "accept" /\ pc' = "read") => scan' = Registered'
  /\ (pc = "read" /\ pc' = "dispatch") => scan = {}
  /\ pc = "read"
       => /\ out' = out
          /\ \A id \in Registered' : id \in Registered
          /\ \A id \in Registered' :
               LET before == connections[id].buffer
                   after == connections'[id].buffer
                   n == Len(after) - Len(before)
               IN /\ n >= 0 /\ n <= ScratchSize
                  /\ SubSeq(after, 1, Len(before)) = before
                  /\ n > 0 => /\ id \in scan /\ id \notin scan'
                              /\ SubSeq(after, Len(before) + 1, Len(after))
                                   = SubSeq(inbound[id], 1, n)
                              /\ inbound'[id] = SubSeq(inbound[id], n + 1, Len(inbound[id]))
                  /\ (id \in scan /\ id \notin scan' /\ inbound[id] = <<>> /\ id \notin eof)
                       => (n = 0 /\ id \in Registered')
                  /\ (id \in scan /\ id \notin scan' /\ inbound[id] # <<>>) => n > 0

\* C15: in the read phase every registered connection gets one read; a read
\* that would block leaves the buffer and the registration as they are; a
\* read of n > 0 bytes, n at most 1024, puts exactly these bytes behind what
\* the buffer held; the phase never shortens a buffer and never writes to a
\* socket.
C15_ReadPhase == [][C15_ReadStep]_vars

\* The first read of a long request stopped at the size of the scratch buffer,
\* and a later read has put a whole request behind bytes the buffer held.
C15_Witness ==
  \E id \in Registered :
    /\ Len(batches[id]) = 3
    /\ batches[id][1] = <<>>
    /\ batches[id][3] = <<(<<PING>>)>>
    /\ Len(connections[id].buffer) > Len(Encode(<<PING>>))


\* What one step does in the accept phase, and to the registry.
C16_AcceptStep ==
  /\ (pc = "accept" /\ pc' = "read") => (backlog = 0 /\ result' = "running")
  /\ backlog' < backlog
       => /\ pc = "accept" /\ pc' = "accept" /\ result' = "running"
          /\ backlog' = backlog - 1
          /\ next_connection_id \notin Registered
          /\ Registered' = Registered \cup {next_connection_id}
          /\ connections'[next_connection_id].buffer = <<>>
          /\ \A id \in Registered : connections'[id] = connections[id]
  /\ Registered' \ Registered # {} => backlog' < backlog
  /\ (pc = "accept" /\ pc' = "exited") => result' = "accept_error"
  /\ (result' = "accept_error" /\ result # "accept_error")
       => (pc = "accept" /\ pc' = "exited")

\* C16: the read phase starts only when no connection is pending any more;
\* each accept adds one entry under an id the registry does not hold, with an
\* empty buffer, and leaves the other entries as they are; the would-block
\* that ends the phase is no error; another accept error ends run.
C16_AcceptPhase == [][C16_AcceptStep]_vars

\* Two connections are registered when the read phase starts, one of them new
\* and one that has been answered before.
C16_Witness ==
  /\ pc = "read"
  /\ scan = Registered
  /\ \E id \in Registered : out[id] # <<>>
  /\ \E id \in Registered : batches[id] = <<>> /\ connections[id].buffer = <<>>


\* The drawn frame has a bad header: its first byte is neither * nor $, or the
\* count of the array or the length of the bulk string is no number, or one
\* of the elements the count asks for is no bulk string with a number for its
\* length.
HasBadHeader(d) ==
  IF Len(d.head) = 0
  THEN ~IsBulkElement(d, 1)
  ELSE \/ ~IsCountedArray(d)
       \/ \E i \in 1..Min(DeclaredCount(d), Len(d.elems)) : ~IsBulkElement(d, i)

\* C17: the parse of a buffer fails, and nothing is written for it, when its
\* first byte is neither * nor $, when its array count or bulk length is not a
\* decimal number (digits, with or without a plus sign), and when one of the
\* elements of an array is not a $ frame with such a length.
C17_BadHeaderFails ==
  \A id \in Clients :
    (HoldsShape(id) /\ HasBadHeader(TheShape(id)))
      => /\ ~parse_redis_protocol(connections[id].buffer).ok
         /\ out[id] = <<>>

\* A tick is over for an array of two elements whose second element is no $
\* frame.
C17_Witness ==
  \E id \in Clients :
    /\ HoldsShape(id)
    /\ pc = "accept"
    /\ IsCountedArray(TheShape(id))
    /\ DeclaredCount(TheShape(id)) = 2 /\ Len(TheShape(id).elems) = 2
    /\ IsBulkElement(TheShape(id), 1)
    /\ TheShape(id).elems[2].mark = ":"


\* What the round of the dispatch loop does when it has a reply for a socket
\* that was reset, so that the write fails.
C18_FailedWriteRound ==
  \A id \in Registered :
    (/\ pc = "dispatch" /\ id \in scan /\ id \notin scan'
     /\ id \in broken
     /\ Len(DispatchReply(connections[id].buffer)) > 0)
      => /\ Registered' = Registered
         /\ connections'[id].buffer = <<>>
         /\ \A other \in Registered \ {id} : connections'[other] = connections[other]
         /\ out' = out
         /\ pc' = "dispatch" /\ result' = "running"
         /\ scan' = scan \ {id}

\* C18: when the write of a reply fails the connection stays in the registry,
\* its buffer is cleared all the same, the loop goes on and the connections
\* still to come in the phase are dispatched.
C18_WriteFailureIgnored == [][C18_FailedWriteRound]_vars

\* A reply to a reset socket was lost: the connection is registered with an
\* empty buffer and fewer replies than reads, and another connection of the
\* same phase is still to be dispatched.
C18_Witness ==
  /\ pc = "dispatch"
  /\ scan # {}
  /\ \E id \in (Registered \cap broken) \ scan :
       /\ connections[id].buffer = <<>>
       /\ Len(out[id]) < Len(batches[id])


\* The first read of socket id brought the first write of its client and no
\* more: the buffer began as FirstWrite(id).
FirstWriteRead(id) == Len(batches[id]) >= 1 /\ Len(batches[id][1]) = 1
FirstWrite(id) == batches[id][1][1]

\* C19 (as stated): once the buffer of a connection starts with content that
\* does not dispatch, no reply is written to the connection any more and the
\* buffer keeps that content at its start.  It fails for a header that is
\* invalid only because it is cut short: the bytes that follow complete it.
C19_StuckForever ==
  \A id \in Clients :
    FirstWriteRead(id)
      => /\ out[id] = <<>>
         /\ id \in Registered => StartsWith(connections[id].buffer, FirstWrite(id))

\* The lines of b that are ended by a line feed.
WholeLines(b) ==
  LET ends == {i \in 1..Len(b) : b[i] = LF}
      last == IF ends = {} THEN 0 ELSE CHOOSE i \in ends : \A j \in ends : j <= i
  IN Lines(SubSeq(b, 1, last))

IsBulkHeader(line) == Len(line) > 0 /\ line[1] = "$" /\ IsNumber(Tail(line))

\* No bytes behind b can make it dispatch: its first byte is not *, or the
\* count line of the array is whole and no number, or the header line of one
\* of the counted elements is whole and no bulk string header.
CannotDispatch(b) ==
  \/ b[1] # "*"
  \/ /\ Len(WholeLines(b)) >= 1
     /\ LET field == Tail(WholeLines(b)[1])
        IN \/ ~IsNumber(field)
           \/ \E i \in 1..NumberOf(field) :
                2 * i <= Len(WholeLines(b)) /\ ~IsBulkHeader(WholeLines(b)[2 * i])

\* What one step does to a buffer: a read puts bytes behind it, the dispatch
\* of an array empties it, nothing else changes it.
C19_BufferStep ==
  \A id \in Registered \cap Registered' :
    LET before == connections[id].buffer
        after == connections'[id].buffer
    IN \/ after = before
       \/ pc = "read" /\ Len(after) > Len(before) /\ StartsWith(after, before)
       \/ /\ pc = "dispatch" /\ after = <<>>
          /\ LET r == parse_redis_protocol(before) IN r.ok /\ r.val.tag = "Array"

\* C19: a buffer is changed only by reads, which put bytes behind it, and by
\* the dispatch of an array, which empties it; once a buffer starts with a
\* first byte other than *, or with an array whose count line or counted
\* element header line is whole and invalid, no reply is written to the
\* connection any more and the buffer keeps that start, whatever requests
\* the client sends behind it.
C19_StuckOnFinalBytes ==
  /\ [](\A id \in Clients :
          (FirstWriteRead(id) /\ CannotDispatch(FirstWrite(id)))
            => /\ out[id] = <<>>
               /\ id \in Registered => StartsWith(connections[id].buffer, FirstWrite(id)))
  /\ [][C19_BufferStep]_vars

\* A tick is over in which a whole request was read behind bytes that cannot
\* dispatch: both are in the buffer, and there is no reply.
C19_Witness ==
  \E id \in Registered :
    /\ pc = "accept"
    /\ FirstWriteRead(id) /\ CannotDispatch(FirstWrite(id))
    /\ IsUtf8(FirstWrite(id))
    /\ Len(batches[id]) = 2 /\ Len(batches[id][2]) = 1
    /\ connections[id].buffer = FirstWrite(id) \o Encode(batches[id][2][1])
    /\ out[id] = <<>>


\* The drawn frame without the elements behind the first n.
FirstElements(d, n) == [d EXCEPT !.elems = SubSeq(d.elems, 1, Min(n, Len(d.elems)))]

\* C20: an array that the parse returns has as many elements as its header
\* declares, each one a bulk string, the i-th holding the i-th payload of the
\* buffer; the lines behind the last declared element make no difference to
\* the value.
C20_ArrayCount ==
  \A id \in Clients :
    LET r == parse_redis_protocol(connections[id].buffer)
        d == TheShape(id)
    IN (HoldsShape(id) /\ r.ok /\ r.val.tag = "Array")
         => /\ IsCountedArray(d)
            /\ Len(r.val.elems) = DeclaredCount(d)
            /\ \A i \in 1..Len(r.val.elems) : r.val.elems[i] = BulkString(Letter(i))
            /\ r = parse_redis_protocol(ShapeBytes(FirstElements(d, DeclaredCount(d))))

\* The dispatch phase comes to a buffer that holds an array of one element
\* and two more lines behind it, and the parse gives an array.
C20_Witness ==
  \E id \in Clients :
    /\ HoldsShape(id)
    /\ pc = "dispatch" /\ id \in scan
    /\ IsCountedArray(TheShape(id))
    /\ DeclaredCount(TheShape(id)) = 1 /\ Len(TheShape(id).elems) = 2
    /\ parse_redis_protocol(connections[id].buffer).ok

============================================================================
